---- MODULE Spec2Model ----
(***************************************************************************)
(* Scrobble ingestion of lytter: the sync walk GetScrobbles.get_scrobbles  *)
(* (src/src/lytter/app.py), its entry points (update_db.py,                *)
(* cron_updater.py, background_updater.py) and the gap checker             *)
(* (src/gap_checker.py), over the musiclibrary table and a paginated       *)
(* remote that may repeat timestamps, list a now-playing track and fail    *)
(* single requests.                                                        *)
(*                                                                         *)
(* The remote returns completed tracks with a date and now-playing tracks  *)
(* with the nowplaying marker; how many tracks it puts on one page is the  *)
(* remote's choice (perPage), the code never reads it.                     *)
(***************************************************************************)
EXTENDS Integers, Sequences, FiniteSets, Bags, TLC

VARIABLES
    musiclibrary,   \* the table, a bag of rows
    remote,         \* the remote history and how it is paged
    run,            \* each process's run of get_scrobbles or of the gap checker
    prev            \* the run before, kept while the same invocation is repeated

vars == <<musiclibrary, remote, run, prev>>

(* ---------------------------------------------------------------- bounds *)

\* new tracks at the head of the remote history in the small remotes
MaxNew == 2
\* length of the long block of already stored tracks
LongRun == 60
\* pages of the remote with many pages, one new track on each
ManyPages == 21
\* the highest page number whose request may fail
MaxFailPage == 2
\* new tracks of the remote whose walk is killed (more pages than the five
\* of an incremental run)
KillPages == 6
\* rows an artist has at most in the table the search reads
MaxPlays == 2

(* ------------------------------------------------------ program constants *)

CONSECUTIVE_SCROBBLES_THRESHOLD == 50
IncrementalPages == 5
ThoroughPages == 20
min_query_length == 2
score_cutoff == 60

(* ---------------------------------------------------------------- helpers *)

Min2(a, b) == IF a <= b THEN a ELSE b

SetMax(S) == CHOOSE m \in S : \A x \in S : x <= m

Range(s) == {s[i] : i \in 1..Len(s)}

(* ------------------------------------------------------------- the table *)

\* one row of musiclibrary: fields stands for artist, artist_mbid, album,
\* album_mbid, track, track_mbid; the id column, which no statement reads, is
\* left out, and the table is the bag of its rows
Row(t, f) == [timestamp |-> t, fields |-> f]

Stored(db) == {r.timestamp : r \in BagToSet(db)}

\* SELECT 1 FROM musiclibrary WHERE timestamp = ?
SelectExists(db, t) == \E r \in BagToSet(db) : r.timestamp = t

NoUniqueInsert(db, row) == [ok |-> TRUE, db |-> db (+) SetToBag({row})]

ReplacingInsert(db, row) ==
    [ok |-> TRUE,
     db |-> SetToBag({r \in BagToSet(db) : r.timestamp # row.timestamp} \cup {row})]

HalfWrittenInsert(db, row) ==
    [ok |-> TRUE, db |-> db (+) SetToBag({Row(row.timestamp, "partial")})]

UncommittedInsert(db, row) == [ok |-> TRUE, db |-> db]

\* INSERT INTO musiclibrary ...; conn.commit(): timestamp INTEGER UNIQUE makes
\* the statement raise sqlite3.IntegrityError when the timestamp is stored
DbInsert(db, row) ==
    IF \E r \in BagToSet(db) : r.timestamp = row.timestamp
    THEN [ok |-> FALSE, db |-> db]
    ELSE [ok |-> TRUE, db |-> db (+) SetToBag({row})]

\* SELECT MAX(timestamp): <<>> stands for NULL
SelectMax(db) ==
    IF db = EmptyBag THEN <<>> ELSE <<SetMax(Stored(db))>>

\* return int(result) if result else 0: None and 0 are both falsy
get_latest_timestamp(db) ==
    LET result == SelectMax(db)
    IN  IF result # <<>> /\ result[1] # 0 THEN result[1] ELSE 0

(* ------------------------------------------------------------- the remote *)

Ev(t) == [uts |-> t, fields |-> "a", nowplaying |-> FALSE]

\* the same timestamp reported again with other fields
Dup(t) == [uts |-> t, fields |-> "b", nowplaying |-> FALSE]

\* a now-playing track that carries a date
NowPlaying(t) == [uts |-> t, fields |-> "np", nowplaying |-> TRUE]

\* n tracks hi, hi-1, ... newest first
Desc(hi, n) == [i \in 1..n |-> Ev(hi - i + 1)]

Rep(t, n) == [i \in 1..n |-> Ev(t)]

\* rows for the timestamps lo..hi
StoreOf(lo, hi) == SetToBag({Row(t, "a") : t \in lo..hi})

NumPages(h, n) == (Len(h) + n - 1) \div n

PageOf(h, n, k) ==
    IF (k - 1) * n >= Len(h) THEN <<>>
    ELSE SubSeq(h, (k - 1) * n + 1, Min2(k * n, Len(h)))

\* user.getrecenttracks&page=k
RecentTracks(k) ==
    [track |-> PageOf(remote.hist, remote.perPage, k),
     totalPages |-> NumPages(remote.hist, remote.perPage)]

InWindow(e, from, to) == e.nowplaying \/ (from <= e.uts /\ e.uts <= to)

\* user.getrecenttracks&from=..&to=..&page=k
RangeTracks(from, to, k) ==
    LET h == SelectSeq(remote.hist, LAMBDA e : InWindow(e, from, to))
    IN  [track |-> PageOf(h, remote.perPage, k),
         totalPages |-> NumPages(h, remote.perPage)]

\* small remotes: a now-playing head, n new tracks, a repeated
\* timestamp, then the tracks 3, 2, 2, 1
SmallHist(n) ==
    <<NowPlaying(9)>>
    \o Desc(3 + n, n)
    \o (IF n > 0 THEN <<Dup(4)>> ELSE <<>>)
    \o <<Ev(3), Ev(2), Dup(2), Ev(1)>>

SmallStores == {EmptyBag, StoreOf(1, 3), SetToBag({Row(1, "a"), Row(3, "a")})}

SmallRemotes ==
    {[hist |-> SmallHist(n), perPage |-> k, rows |-> s] :
        n \in 0..MaxNew, k \in {2, 200}, s \in SmallStores}

\* a long block of stored tracks behind two new ones, on one page or split
LongRemotes ==
    {[hist |-> Desc(LongRun + 2, 2) \o Desc(LongRun, LongRun),
      perPage |-> k, rows |-> StoreOf(1, LongRun)] : k \in {LongRun \div 2 + 1, 200}}

\* a store that holds the timestamp 0 only, the remote repeating it
ZeroRemotes ==
    {[hist |-> <<Ev(5)>> \o Rep(0, LongRun), perPage |-> 200, rows |-> StoreOf(0, 0)]}

\* a new track repeated many times, then the stored one
RepeatRemotes ==
    {[hist |-> <<Ev(9)>> \o Rep(9, LongRun) \o <<Ev(1)>>, perPage |-> 200,
      rows |-> StoreOf(1, 1)]}

\* many pages with one new track each
PagedRemotes ==
    {[hist |-> Desc(ManyPages + 1, ManyPages) \o <<Ev(1)>>, perPage |-> 1,
      rows |-> StoreOf(1, 1)]}

\* a store with two gaps of more than an hour, the remote holding tracks in them
GapRemotes ==
    {[hist |-> <<Ev(9000), Ev(7000), Ev(5100), Ev(5000), Ev(3000), Dup(3000), Ev(1000)>>,
      perPage |-> k,
      rows |-> SetToBag({Row(t, "a") : t \in {1000, 5000, 5100, 9000}})] :
        k \in {2, 200}}

\* a store with one gap, the remote holding three pages of tracks in its window
WideGapRemotes ==
    {[hist |-> <<Ev(9000), Ev(8000), Ev(7000), Ev(6000), Ev(5000), Ev(1000)>>,
      perPage |-> 2,
      rows |-> SetToBag({Row(t, "a") : t \in {1000, 9000}})]}

\* a page of tracks that repeat the timestamp of the page before, newer
\* tracks behind it
TieRemotes ==
    {[hist |-> <<Ev(9), Ev(8), Dup(8), Dup(8), Ev(7), Ev(1)>>, perPage |-> 2,
      rows |-> StoreOf(1, 1)]}

Scenarios ==
    SmallRemotes \cup LongRemotes \cup ZeroRemotes \cup RepeatRemotes
        \cup PagedRemotes \cup GapRemotes \cup TieRemotes
        \cup WideGapRemotes

(* --------------------------------------------------------------- the runs *)

Procs == {1, 2}

IdleRun ==
    [pc |-> "idle", op |-> "none", mode |-> "none", full |-> FALSE, pages |-> 0,
     latest_timestamp |-> 0, total_pages |-> 0, page_ |-> 0, scrobbles |-> <<>>,
     idx |-> 0, new_scrobbles_count |-> 0, consecutive_old_scrobbles |-> 0,
     page_new_count |-> 0, result |-> 0, exit |-> "none",
     cutoff_time |-> 0, gap_threshold |-> 0,
     gaps |-> <<>>, dry_run |-> FALSE, g |-> 0, page |-> 0, all_scrobbles |-> <<>>,
     added_count |-> 0, total_added |-> 0,
     pre |-> EmptyBag, requests |-> <<>>, failed |-> {}, page_base |-> 0,
     old_run |-> 0]

\* Of these, pre (the table when the run began), requests (the requests made,
\* <<0, 0>> the first one, <<0, k>> page k of the walk, <<g, k>> page k of the
\* window of gap g), failed (those that failed), page_base (the number of rows
\* when the page was fetched) and old_run (the tracks met in a row that were
\* stored and not newer than the latest row of pre) are not variables of the
\* code: they record what the run did.

\* what is kept of a run that is over
Summary(r) ==
    [op |-> r.op, full |-> r.full, pages |-> r.pages, dry_run |-> r.dry_run,
     cutoff_time |-> r.cutoff_time, gap_threshold |-> r.gap_threshold,
     exit |-> r.exit, result |-> r.result,
     asked |-> Range(r.requests), failed |-> r.failed, pre |-> EmptyBag]

NoPrev == Summary(IdleRun)

\* API_KEY and USER_NAME as the modules read them from the environment: ""
\* (None in gap_checker) when the variable is not set
Environments == [API_KEY : {"", "key"}, USER_NAME : {"", "user"}]

Complete == [API_KEY |-> "key", USER_NAME |-> "user"]

\* what the requests go to and what they carry: url.format(..., USER_NAME,
\* API_KEY, ...)
RemoteOf(s, env) ==
    [hist |-> s.hist, perPage |-> s.perPage,
     API_KEY |-> env.API_KEY, USER_NAME |-> env.USER_NAME]

Configured == remote.API_KEY # "" /\ remote.USER_NAME # ""

Init ==
    /\ \E s \in Scenarios :
        /\ remote = RemoteOf(s, Complete)
        /\ musiclibrary = s.rows
    /\ run = [p \in Procs |-> IdleRun]
    /\ prev = NoPrev

\* a request may fail (timeout, HTTP error status, undecodable body); one
\* that carries no key or no user is answered with an HTTP error status
MayFail(id, ok) == IF Configured THEN ok \/ id[2] <= MaxFailPage ELSE ~ok

Requested(r, id, ok) ==
    [r EXCEPT !.requests = Append(@, id),
              !.failed = IF ok THEN @ ELSE @ \cup {id}]

Set(p, r) == run' = [run EXCEPT ![p] = r]

\* no other process is in a run
Alone(p) == \A q \in Procs \ {p} : run[q].pc = "idle"

(* ------------------------------------------- GetScrobbles.get_scrobbles *)

PageCeilingUnclamped(totalPages, pages, full) == totalPages

PageCeilingAlways(totalPages, pages, full) ==
    LET limited == IF pages > 0 THEN Min2(totalPages, pages) ELSE totalPages
    IN  Min2(limited, IncrementalPages)

\* total_pages after the two clamps
PageCeiling(totalPages, pages, full) ==
    LET limited == IF pages > 0 THEN Min2(totalPages, pages) ELSE totalPages
    IN  IF ~full THEN Min2(limited, IncrementalPages) ELSE limited

EarlyStopAnyAge(consecutive, full, latest, ts) ==
    /\ consecutive >= CONSECUTIVE_SCROBBLES_THRESHOLD
    /\ ~full
    /\ latest > 0

\* the condition of the event-granularity stop
EarlyStop(consecutive, full, latest, ts) ==
    /\ consecutive >= CONSECUTIVE_SCROBBLES_THRESHOLD
    /\ ~full
    /\ latest > 0
    /\ ts <= latest

NeverNowPlaying(scrobble) == FALSE

\* "@attr" in scrobble and scrobble["@attr"]["nowplaying"] == "true"
IsNowPlaying(scrobble) == scrobble.nowplaying

PageStopInFull(full, page_new_count) == page_new_count = 0

\* the condition of the page-granularity stop
PageStop(full, page_new_count) == ~full /\ page_new_count = 0

FinishPageCount(r, how) ==
    [r EXCEPT !.pc = "done", !.exit = how, !.result = r.page_new_count]

\* return new_scrobbles_count
Finish(r, how) ==
    [r EXCEPT !.pc = "done", !.exit = how, !.result = r.new_scrobbles_count]

NextPageSkipsOne(r) ==
    IF r.page_ + 1 < r.total_pages
    THEN [r EXCEPT !.page_ = @ + 2, !.pc = "fetch"]
    ELSE Finish(r, "exhausted")

NextPageResetsCount(r) ==
    IF r.page_ < r.total_pages
    THEN [r EXCEPT !.page_ = @ + 1, !.pc = "fetch", !.consecutive_old_scrobbles = 0]
    ELSE Finish(r, "exhausted")

\* the for loop over range(1, total_pages + 1) moves on, or ends the run
NextPage(r) ==
    IF r.page_ < r.total_pages
    THEN [r EXCEPT !.page_ = @ + 1, !.pc = "fetch"]
    ELSE Finish(r, "exhausted")

FailedPageCountsAsEmpty(r) ==
    IF PageStop(r.full, 0) THEN Finish(r, "page_stop") ELSE NextPage(r)

\* except Exception: print, continue: the end-of-page test is not reached
SkipPage(r) == NextPage(r)

\* get_scrobbles is entered: the latest stored timestamp is read when not full
GsEnter(p, mode, full, pages) ==
    /\ Set(p, [IdleRun EXCEPT
            !.pc = "first", !.op = "sync", !.mode = mode, !.full = full,
            !.pages = pages,
            !.latest_timestamp =
                IF ~full THEN get_latest_timestamp(musiclibrary) ELSE 0,
            !.pre = musiclibrary])
    /\ prev' = IF /\ prev.op = "sync" /\ prev.full = full /\ prev.pages = pages
                  /\ Alone(p)
               THEN prev ELSE NoPrev
    /\ UNCHANGED <<musiclibrary, remote>>

\* a process calls get_scrobbles
GsStart(p, mode, full, pages) ==
    run[p].pc = "idle" /\ GsEnter(p, mode, full, pages)

\* the first response is not of the expected shape (an error body without
\* "recenttracks"): data[self.method]["@attr"] raises outside the try
GsRaise(p) ==
    /\ run[p].pc = "first"
    /\ Set(p, [Requested(run[p], <<0, 0>>, TRUE) EXCEPT
                    !.pc = "done", !.exit = "raised"])
    /\ UNCHANGED <<musiclibrary, remote, prev>>

FirstFailedGoesOn(r) == [r EXCEPT !.total_pages = 1, !.page_ = 1, !.pc = "fetch"]

\* except Exception: print, return 0
FirstFailed(r) == [r EXCEPT !.pc = "done", !.exit = "first_failed", !.result = 0]

\* the first request, made for totalPages only
GsFirst(p) ==
    /\ run[p].pc = "first"
    /\ \E ok \in BOOLEAN :
        /\ MayFail(<<0, 0>>, ok)
        /\ LET r == Requested(run[p], <<0, 0>>, ok)
               c == PageCeiling(RecentTracks(1).totalPages, r.pages, r.full)
           IN  IF ~ok
               THEN Set(p, FirstFailed(r))
               ELSE IF c >= 1
                    THEN Set(p, [r EXCEPT !.total_pages = c, !.page_ = 1,
                                          !.pc = "fetch"])
                    ELSE Set(p, Finish([r EXCEPT !.total_pages = c], "exhausted"))
    /\ UNCHANGED <<musiclibrary, remote, prev>>

\* one page is requested; a failed request skips the page (continue)
GsFetch(p) ==
    /\ run[p].pc = "fetch"
    /\ \E ok \in BOOLEAN :
        /\ MayFail(<<0, run[p].page_>>, ok)
        /\ LET r == Requested(run[p], <<0, run[p].page_>>, ok)
           IN  IF ~ok
               THEN Set(p, SkipPage(r))
               ELSE Set(p, [r EXCEPT !.scrobbles = RecentTracks(r.page_).track,
                                     !.idx = 1, !.page_new_count = 0,
                                     !.page_base = BagCardinality(musiclibrary),
                                     !.pc = "event"])
    /\ UNCHANGED <<musiclibrary, remote, prev>>

\* the track is stored and not newer than the latest row the table had when
\* the run began
OldForRun(r, ts) ==
    /\ SelectExists(musiclibrary, ts)
    /\ r.pre # EmptyBag
    /\ ts <= SetMax(Stored(r.pre))

\* one track of the page: now-playing is skipped, a stored timestamp counts
\* as old and may stop the run, any other goes to the insert
GsEvent(p) ==
    LET r == run[p]
        scrobble == r.scrobbles[r.idx]
        count == r.consecutive_old_scrobbles + 1
        old == IF OldForRun(r, scrobble.uts) THEN r.old_run + 1 ELSE 0
    IN  /\ r.pc = "event"
        /\ r.idx <= Len(r.scrobbles)
        /\ IF IsNowPlaying(scrobble)
           THEN Set(p, [r EXCEPT !.idx = @ + 1])
           ELSE IF SelectExists(musiclibrary, scrobble.uts)
                THEN IF EarlyStop(count, r.full, r.latest_timestamp, scrobble.uts)
                     THEN Set(p, Finish([r EXCEPT !.consecutive_old_scrobbles = count,
                                                  !.old_run = old],
                                        "event_stop"))
                     ELSE Set(p, [r EXCEPT !.consecutive_old_scrobbles = count,
                                           !.old_run = old, !.idx = @ + 1])
                ELSE Set(p, [r EXCEPT !.consecutive_old_scrobbles = 0,
                                      !.old_run = old, !.pc = "insert"])
        /\ UNCHANGED <<musiclibrary, remote, prev>>

\* INSERT and commit; sqlite3.Error is caught and rolled back
GsInsert(p) ==
    LET r == run[p]
        scrobble == r.scrobbles[r.idx]
        ins == DbInsert(musiclibrary, Row(scrobble.uts, scrobble.fields))
    IN  /\ r.pc = "insert"
        /\ musiclibrary' = ins.db
        /\ IF ins.ok
           THEN Set(p, [r EXCEPT !.new_scrobbles_count = @ + 1,
                                 !.page_new_count = @ + 1,
                                 !.idx = @ + 1, !.pc = "event"])
           ELSE Set(p, [r EXCEPT !.idx = @ + 1, !.pc = "event"])
        /\ UNCHANGED <<remote, prev>>

\* the page is done: an incremental run ends on a page without new tracks
GsEndPage(p) ==
    LET r == run[p]
    IN  /\ r.pc = "event"
        /\ r.idx > Len(r.scrobbles)
        /\ IF PageStop(r.full, r.page_new_count)
           THEN Set(p, Finish(r, "page_stop"))
           ELSE Set(p, NextPage(r))
        /\ UNCHANGED <<musiclibrary, remote, prev>>

\* the process is killed between two page requests: what it committed stays
Interrupt(p) ==
    /\ run[p].op = "sync" /\ run[p].pc = "fetch"
    /\ prev' = IF Alone(p)
               THEN [Summary(run[p]) EXCEPT !.exit = "interrupted",
                                            !.pre = run[p].pre]
               ELSE NoPrev
    /\ Set(p, IdleRun)
    /\ UNCHANGED <<musiclibrary, remote>>

\* get_scrobbles as a function of the table, every request answered: the
\* tracks of one page from the i-th on
RECURSIVE WalkPage(_, _, _, _, _)
WalkPage(w, tracks, i, full, latest) ==
    IF i > Len(tracks) THEN w
    ELSE LET e == tracks[i]
         IN  IF IsNowPlaying(e) THEN WalkPage(w, tracks, i + 1, full, latest)
             ELSE IF SelectExists(w.db, e.uts)
                  THEN IF EarlyStop(w.count + 1, full, latest, e.uts)
                       THEN [w EXCEPT !.count = @ + 1, !.stop = TRUE]
                       ELSE WalkPage([w EXCEPT !.count = @ + 1], tracks, i + 1,
                                     full, latest)
                  ELSE WalkPage([w EXCEPT
                                    !.db = DbInsert(@, Row(e.uts, e.fields)).db,
                                    !.count = 0, !.new = @ + 1, !.added = @ + 1],
                                tracks, i + 1, full, latest)

\* the pages from the k-th on
RECURSIVE WalkPages(_, _, _, _, _)
WalkPages(w, k, total_pages, full, latest) ==
    IF k > total_pages THEN w
    ELSE LET w2 == WalkPage([w EXCEPT !.new = 0], RecentTracks(k).track, 1,
                            full, latest)
         IN  IF w2.stop \/ PageStop(full, w2.new) THEN w2
             ELSE WalkPages(w2, k + 1, total_pages, full, latest)

\* the table and the count an uninterrupted get_scrobbles ends with
Walk(db, full, pages) ==
    WalkPages([db |-> db, count |-> 0, new |-> 0, added |-> 0, stop |-> FALSE],
              1, PageCeiling(RecentTracks(1).totalPages, pages, full), full,
              IF ~full THEN get_latest_timestamp(db) ELSE 0)

(* ------------------------------------------------------------ gap_checker *)

\* the timestamps of the rows of db in descending order
RECURSIVE OrderDesc(_)
OrderDesc(db) ==
    IF db = EmptyBag THEN <<>>
    ELSE LET r == CHOOSE r \in BagToSet(db) :
                    \A q \in BagToSet(db) : q.timestamp <= r.timestamp
         IN  <<r.timestamp>> \o OrderDesc(db (-) SetToBag({r}))

\* SELECT timestamp FROM musiclibrary WHERE timestamp > ? ORDER BY timestamp DESC
SelectSince(db, cutoff_time) ==
    LET late == {r \in BagToSet(db) : r.timestamp > cutoff_time}
    IN  OrderDesc([r \in late |-> db[r]])

IsGapOrEqual(gap, gap_threshold) == gap >= gap_threshold

\* if gap > gap_threshold
IsGap(gap, gap_threshold) == gap > gap_threshold

\* the adjacent pairs further apart than the threshold, newest first
find_timestamp_gaps(db, cutoff_time, gap_threshold) ==
    LET timestamps == SelectSince(db, cutoff_time)
        pairs == [i \in 1..(Len(timestamps) - 1) |->
                    [newer_ts |-> timestamps[i], older_ts |-> timestamps[i + 1],
                     gap_seconds |-> timestamps[i] - timestamps[i + 1]]]
    IN  SelectSeq(pairs, LAMBDA x : IsGap(x.gap_seconds, gap_threshold))

\* "@attr" in track and track["@attr"].get("nowplaying") == "true"
RangeNowPlaying(track) == track.nowplaying

\* the tracks of one response that fetch_scrobbles_in_range keeps
KeptTracks(tracks) ==
    LET kept == SelectSeq(tracks, LAMBDA e : ~RangeNowPlaying(e))
    IN  [i \in 1..Len(kept) |-> Row(kept[i].uts, kept[i].fields)]

\* fill_gaps turns to the gap r.g: fetch_scrobbles_in_range starts at page 1
StartGap(r, g) ==
    [r EXCEPT !.g = g, !.page = 1, !.all_scrobbles = <<>>, !.pc = "range"]

\* gap_checker.main: the gaps are found, and fill_gaps is entered if there are any
GapMain(p, cutoff_time, gap_threshold, fix) ==
    LET gaps == find_timestamp_gaps(musiclibrary, cutoff_time, gap_threshold)
        r == [IdleRun EXCEPT !.op = "fill", !.mode = "gaps", !.dry_run = ~fix,
                             !.cutoff_time = cutoff_time,
                             !.gap_threshold = gap_threshold,
                             !.gaps = gaps, !.pre = musiclibrary]
    IN  /\ run[p].pc = "idle"
        /\ IF gaps = <<>>
           THEN Set(p, [r EXCEPT !.pc = "done", !.exit = "no_gaps"])
           ELSE Set(p, StartGap(r, 1))
        /\ prev' = IF /\ prev.op = "fill" /\ prev.dry_run /\ fix /\ Alone(p)
                      /\ prev.cutoff_time = cutoff_time
                      /\ prev.gap_threshold = gap_threshold
                   THEN prev ELSE NoPrev
        /\ UNCHANGED <<musiclibrary, remote>>

\* fetch_scrobbles_in_range has its list: fill_gaps checks it track by track
RangeDone(r) ==
    [r EXCEPT !.pc = "check", !.idx = 1, !.added_count = 0]

OnePageOnly(page, total_pages) == TRUE

PastLastPage(page, total_pages) == page > total_pages

\* if page >= total_pages: break
LastPage(page, total_pages) == page >= total_pages

FetchErrorEndsFill(r) ==
    [r EXCEPT !.pc = "done", !.exit = "filled", !.result = r.total_added]

\* except Exception: print, break: the list collected so far is returned
FetchError(r) == RangeDone(r)

\* one request of fetch_scrobbles_in_range; a failure, an empty page or the
\* last page ends the loop with what was collected
\* (line 66 of gap_checker.py is read as the assignment of url, which lines
\* 73-75 use)
FrPage(p) ==
    LET r0 == run[p]
        gap == r0.gaps[r0.g]
        data == RangeTracks(gap.older_ts, gap.newer_ts, r0.page)
    IN  /\ r0.pc = "range"
        /\ \E ok \in BOOLEAN :
            /\ MayFail(<<r0.g, r0.page>>, ok)
            /\ LET r == Requested(r0, <<r0.g, r0.page>>, ok)
                   more == [r EXCEPT !.all_scrobbles = @ \o KeptTracks(data.track)]
               IN  IF ~ok
                   THEN Set(p, FetchError(r))
                   ELSE IF data.track = <<>>
                   THEN Set(p, RangeDone(r))
                   ELSE IF LastPage(r.page, data.totalPages)
                        THEN Set(p, RangeDone(more))
                        ELSE Set(p, [more EXCEPT !.page = @ + 1])
        /\ UNCHANGED <<musiclibrary, remote, prev>>

NeverSkipsWrite(dry_run) == FALSE

\* if not dry_run: ... else: added_count += 1
SkipsWrite(dry_run) == dry_run

\* one fetched track: counted when its timestamp is not stored (dry run), or
\* sent to the insert
FgCheck(p) ==
    LET r == run[p]
        scrobble == r.all_scrobbles[r.idx]
    IN  /\ r.pc = "check"
        /\ r.idx <= Len(r.all_scrobbles)
        /\ IF SelectExists(musiclibrary, scrobble.timestamp)
           THEN Set(p, [r EXCEPT !.idx = @ + 1])
           ELSE IF SkipsWrite(r.dry_run)
                THEN Set(p, [r EXCEPT !.added_count = @ + 1, !.idx = @ + 1])
                ELSE Set(p, [r EXCEPT !.pc = "fill_insert"])
        /\ UNCHANGED <<musiclibrary, remote, prev>>

\* INSERT and commit; sqlite3.IntegrityError is passed over
FgInsert(p) ==
    LET r == run[p]
        ins == DbInsert(musiclibrary, r.all_scrobbles[r.idx])
    IN  /\ r.pc = "fill_insert"
        /\ musiclibrary' = ins.db
        /\ IF ins.ok
           THEN Set(p, [r EXCEPT !.added_count = @ + 1, !.idx = @ + 1,
                                 !.pc = "check"])
           ELSE Set(p, [r EXCEPT !.idx = @ + 1, !.pc = "check"])
        /\ UNCHANGED <<remote, prev>>

\* the gap is done: the next gap, or return total_added
FgEndGap(p) ==
    LET r == run[p]
        total == r.total_added + r.added_count
    IN  /\ r.pc = "check"
        /\ r.idx > Len(r.all_scrobbles)
        /\ IF r.g < Len(r.gaps)
           THEN Set(p, StartGap([r EXCEPT !.total_added = total], r.g + 1))
           ELSE Set(p, [r EXCEPT !.total_added = total, !.result = total,
                                 !.pc = "done", !.exit = "filled"])
        /\ UNCHANGED <<musiclibrary, remote, prev>>

(* ----------------------------------------------------------- entry points *)

\* --pages given on the command line
PagesArgs == {0, 2}

\* --hours, as the cutoff it gives, and --gap-threshold
Cutoffs == {-1, 4000}

GapThresholds == {1, 3600}

\* update_db.main: the arguments of get_scrobbles for each mode
PagesToCheck(mode, argPages) ==
    IF mode = "thorough" THEN (IF argPages > 0 THEN argPages ELSE ThoroughPages)
    ELSE argPages

\* update_db.main with --full (confirmed with y), --thorough or neither;
\* cron_updater.main and update_database call get_scrobbles() as quick, 0
UpdateMain(p, mode, argPages) ==
    GsStart(p, mode, mode = "full", PagesToCheck(mode, argPages))

\* the caller has the result; the process is over
Return(p) ==
    /\ run[p].pc = "done"
    /\ prev' = IF Alone(p) THEN Summary(run[p]) ELSE NoPrev
    /\ Set(p, IdleRun)
    /\ UNCHANGED <<musiclibrary, remote>>

Start(p) ==
    \/ \E mode \in {"full", "thorough", "quick"}, a \in PagesArgs :
            UpdateMain(p, mode, a)
    \/ \E c \in Cutoffs, t \in GapThresholds, fix \in BOOLEAN :
            GapMain(p, c, t, fix)

Step(p) ==
    \/ GsFirst(p) \/ GsFetch(p) \/ GsEvent(p) \/ GsInsert(p) \/ GsEndPage(p)
    \/ FrPage(p) \/ FgCheck(p) \/ FgInsert(p) \/ FgEndGap(p)
    \/ Return(p)

\* one writer at a time
Next == Start(1) \/ Step(1)

Spec == Init /\ [][Next]_vars

\* a process that has begun a run goes on with it: every request returns or
\* fails within its timeout (requests.get(..., timeout=30))
InitLive ==
    /\ \E s \in SmallRemotes \cup GapRemotes \cup WideGapRemotes \cup TieRemotes :
        /\ remote = RemoteOf(s, Complete)
        /\ musiclibrary = s.rows
    /\ run = [p \in Procs |-> IdleRun]
    /\ prev = NoPrev

SpecLive == InitLive /\ [][Next]_vars /\ WF_vars(Step(1))

\* the same runs in every environment, the variables set or not
InitEnv ==
    /\ \E s \in SmallRemotes \cup GapRemotes, env \in Environments :
        /\ remote = RemoteOf(s, env)
        /\ musiclibrary = s.rows
    /\ run = [p \in Procs |-> IdleRun]
    /\ prev = NoPrev

SpecEnv == InitEnv /\ [][Next]_vars

\* the code takes no lock: two processes (a cron run and the scheduler's, an
\* update and a gap check) may meet on the table
RaceRemotes ==
    {[hist |-> <<NowPlaying(9), Ev(3), Ev(2), Dup(2), Ev(1)>>, perPage |-> k,
      rows |-> SetToBag({Row(1, "a"), Row(3, "a")})] : k \in {3, 200}}

InitConc ==
    /\ \E s \in RaceRemotes :
        /\ remote = RemoteOf(s, Complete)
        /\ musiclibrary = s.rows
    /\ run = [p \in Procs |-> IdleRun]
    /\ prev = NoPrev

StartConc(p) ==
    \/ \E mode \in {"full", "quick"} : UpdateMain(p, mode, 0)
    \/ \E fix \in BOOLEAN : GapMain(p, -1, 1, fix)

NextConc == \E p \in Procs : StartConc(p) \/ Step(p)

SpecConc == InitConc /\ [][NextConc]_vars

\* a run of get_scrobbles may be killed between two page requests and the
\* same command started again
KillRemotes ==
    {[hist |-> Desc(KillPages + 1, KillPages) \o <<Ev(1)>>, perPage |-> k,
      rows |-> StoreOf(1, 1)] : k \in {1, 2}}
        \cup SmallRemotes

InitKill ==
    /\ \E s \in KillRemotes :
        /\ remote = RemoteOf(s, Complete)
        /\ musiclibrary = s.rows
    /\ run = [p \in Procs |-> IdleRun]
    /\ prev = NoPrev

SyncStep(p) ==
    \/ GsFirst(p) \/ GsFetch(p) \/ GsEvent(p) \/ GsInsert(p) \/ GsEndPage(p)
    \/ Return(p)

NextKill ==
    \/ \E mode \in {"full", "thorough", "quick"}, a \in PagesArgs :
            UpdateMain(1, mode, a)
    \/ SyncStep(1)
    \/ Interrupt(1)

SpecKill == InitKill /\ [][NextKill]_vars

\* background_updater: the scheduler between two ticks
WaitingRun == [IdleRun EXCEPT !.pc = "waiting", !.mode = "sched"]

SchedulerDies(p) ==
    /\ run[p].mode = "sched" /\ run[p].pc = "done"
    /\ prev' = Summary(run[p])
    /\ Set(p, IF run[p].exit = "raised"
              THEN [IdleRun EXCEPT !.pc = "dead", !.mode = "sched"]
              ELSE WaitingRun)
    /\ UNCHANGED <<musiclibrary, remote>>

\* update_database is over, by return or by the except branch that logs the
\* exception: the scheduler waits for the next tick
SchedReturn(p) ==
    /\ run[p].mode = "sched" /\ run[p].pc = "done"
    /\ prev' = Summary(run[p])
    /\ Set(p, WaitingRun)
    /\ UNCHANGED <<musiclibrary, remote>>

\* the initial update of main, or a tick of the hourly job: update_database
\* calls get_scrobbles()
SchedTick(p) ==
    run[p].pc = "waiting" /\ GsEnter(p, "sched", FALSE, 0)

InitSched ==
    /\ \E s \in SmallRemotes :
        /\ remote = RemoteOf(s, Complete)
        /\ musiclibrary = s.rows
    /\ run = [p \in Procs |-> IF p = 1 THEN WaitingRun ELSE IdleRun]
    /\ prev = NoPrev

NextSched ==
    \/ SchedTick(1)
    \/ GsFirst(1) \/ GsRaise(1) \/ GsFetch(1) \/ GsEvent(1) \/ GsInsert(1)
    \/ GsEndPage(1)
    \/ SchedReturn(1)

\* the job is triggered every hour, and the process runs
SpecSched == InitSched /\ [][NextSched]_vars /\ WF_vars(NextSched)

(* --------------------------------------------------------- search_artists *)

\* Text is a sequence of characters; "¨" stands for the combining diaeresis
\* (category Mn), "ü" for the precomposed letter.

\* str.lower, character by character
LowerChar(c) ==
    CASE c = "L" -> "l" [] c = "U" -> "u" [] c = "T" -> "t" [] c = "Ü" -> "ü"
      [] OTHER -> c

lower(text) == [i \in 1..Len(text) |-> LowerChar(text[i])]

\* unicodedata.normalize("NFD", .) of one character
Decompose(c) ==
    CASE c = "ü" -> <<"u", "¨">> [] c = "Ü" -> <<"U", "¨">> [] OTHER -> <<c>>

RECURSIVE NFD(_)
NFD(text) ==
    IF text = <<>> THEN <<>> ELSE Decompose(Head(text)) \o NFD(Tail(text))

\* unicodedata.category(char) == "Mn"
IsMn(c) == c = "¨"

NormalizeKeepsMarks(text) == NFD(text)

\* NFD, then the combining characters dropped
normalize_text(text) == SelectSeq(NFD(text), LAMBDA c : ~IsMn(c))

\* a in b, for strings
Contains(a, b) ==
    \E i \in 0..(Len(b) - Len(a)) : SubSeq(b, i + 1, i + Len(a)) = a

\* s[:n], as Python slices
Slice(s, n) ==
    IF n >= 0 THEN SubSeq(s, 1, Min2(n, Len(s)))
    ELSE SubSeq(s, 1, IF Len(s) + n > 0 THEN Len(s) + n ELSE 0)

\* the artist names of the tables the search is run on: "Lüt" precomposed
\* and decomposed, and two others
ArtistNames ==
    << <<"L", "ü", "t">>, <<"L", "u", "¨", "t">>, <<"l", "u", "x">>, <<"T", "x">> >>

\* a table in which the i-th artist has plays[i] rows
StoreOfPlays(plays) ==
    SetToBag({Row(10 * x[1] + x[2], ArtistNames[x[1]]) :
        x \in {y \in (1..Len(ArtistNames)) \X (1..MaxPlays) : y[2] <= plays[y[1]]}})

SearchStores ==
    {StoreOfPlays(plays) : plays \in [1..Len(ArtistNames) -> 0..MaxPlays]}

Queries ==
    {<<>>, <<"u">>, <<"l", "u">>, <<"L", "U", "T">>, <<"l", "ü", "t">>,
     <<"t", "x">>, <<"z", "z">>, <<"¨", "¨">>}

Limits == {-1, 0, 1, 2, 10}

\* what fuzz.WRatio may give for a query and a name (the library is not
\* part of the source: any score, below, at or above the cutoff)
Scores == {40, 60, 90}

\* SELECT artist, COUNT(*) FROM musiclibrary GROUP BY artist
all_artists(db) ==
    LET counted == [i \in 1..Len(ArtistNames) |->
                        [artist |-> ArtistNames[i],
                         plays |-> Cardinality({r \in BagToSet(db) :
                                                 r.fields = ArtistNames[i]})]]
    IN  SelectSeq(counted, LAMBDA a : a.plays > 0)

NeverTooShort(q) == FALSE

\* if not q or len(q) < min_query_length
TooShort(q) == Len(q) < min_query_length

\* q_lower in artist_lower or q_normalized in artist_normalized
Tier1Match(q, artist) ==
    \/ Contains(lower(q), lower(artist))
    \/ Contains(normalize_text(lower(q)), normalize_text(lower(artist)))

\* x sorts before y under key (similarity, plays), reverse=True
Before(x, y) ==
    \/ x.similarity > y.similarity
    \/ x.similarity = y.similarity /\ x.plays > y.plays

\* list.sort(key=..., reverse=True): stable, greatest key first
RECURSIVE SortDesc(_)
SortDesc(s) ==
    IF s = <<>> THEN <<>>
    ELSE LET i == CHOOSE i \in 1..Len(s) :
                    /\ \A j \in 1..Len(s) : ~Before(s[j], s[i])
                    /\ \A j \in 1..(i - 1) : Before(s[i], s[j])
         IN  <<s[i]>> \o SortDesc(SubSeq(s, 1, i - 1) \o SubSeq(s, i + 1, Len(s)))

\* process.extract(q, remaining_artists, scorer=fuzz.WRatio, limit=limit * 2,
\* score_cutoff=60): the names scoring at least the cutoff, best first, at
\* most limit * 2 of them; for a negative limit the library's answer is one
\* of: nothing, or the list sliced as Python slices
Extract(remaining, score, lim, negative) ==
    LET kept == SelectSeq(remaining, LAMBDA a : score[a.artist] >= score_cutoff)
        scored == [i \in 1..Len(kept) |->
                    [artist |-> kept[i].artist, plays |-> kept[i].plays,
                     similarity |-> score[kept[i].artist]]]
        best == SortDesc([i \in 1..Len(scored) |-> [scored[i] EXCEPT !.plays = 0]])
        ranked == [i \in 1..Len(best) |->
                    [best[i] EXCEPT !.plays =
                        (CHOOSE a \in Range(kept) : a.artist = best[i].artist).plays]]
    IN  IF lim >= 0 \/ negative = "slice" THEN Slice(ranked, lim) ELSE <<>>

\* search_artists(q, limit) on the table db
search_artists(db, q, limit, score, negative) ==
    IF TooShort(q) THEN <<>>
    ELSE LET all == all_artists(db)
             tier1 == SelectSeq(all, LAMBDA a : Tier1Match(q, a.artist))
             exact == [i \in 1..Len(tier1) |->
                        [artist |-> tier1[i].artist, plays |-> tier1[i].plays,
                         similarity |-> 100]]
             remaining == SelectSeq(all, LAMBDA a : ~Tier1Match(q, a.artist))
             matches == IF remaining = <<>> THEN <<>>
                        ELSE Extract(remaining, score, limit * 2, negative)
         IN  IF all = <<>> THEN <<>>
             ELSE Slice(SortDesc(exact \o matches), limit)

\* the names process.extract is called with: remaining_artists
ScoredNames(db, q) ==
    IF TooShort(q) THEN {}
    ELSE {a.artist : a \in {b \in Range(all_artists(db)) : ~Tier1Match(q, b.artist)}}

\* what the scorer gave for these names (no score for any other name)
ScoresGiven(score) ==
    [name \in Range(ArtistNames) |->
        IF name \in DOMAIN score THEN <<score[name]>> ELSE <<>>]

\* GET /api/search/artists?q=..&limit=..
Search(p) ==
    /\ run[p].pc = "idle"
    /\ \E q \in Queries, limit \in Limits :
        \E score \in [ScoredNames(musiclibrary, q) -> Scores],
           negative \in (IF limit < 0 THEN {"none", "slice"} ELSE {"none"}) :
            Set(p, [pc |-> "done", op |-> "search", q |-> q, limit |-> limit,
                    scores |-> ScoresGiven(score),
                    results |-> search_artists(musiclibrary, q, limit, score, negative)])
    /\ UNCHANGED <<musiclibrary, remote, prev>>

\* the response is sent
SearchReturn(p) ==
    /\ run[p].pc = "done" /\ run[p].op = "search"
    /\ Set(p, IdleRun)
    /\ UNCHANGED <<musiclibrary, remote, prev>>

InitSearch ==
    /\ musiclibrary \in SearchStores
    /\ remote = RemoteOf([hist |-> <<>>, perPage |-> 1], Complete)
    /\ run = [p \in Procs |-> IdleRun]
    /\ prev = NoPrev

NextSearch == Search(1) \/ SearchReturn(1)

SpecSearch == InitSearch /\ [][NextSearch]_vars

(* ------------------------------------------------------------ properties *)

Rows(db) == BagCardinality(db)

\* the run of p returned from the walk (not from the failed first request)
SyncReturned(p) ==
    /\ run[p].op = "sync"
    /\ run[p].pc = "done"
    /\ run[p].exit \in {"exhausted", "page_stop", "event_stop"}

\* every request this run made that the run before made too was answered as
\* it was then
Agree(r) ==
    \A id \in Range(r.requests) \cap prev.asked : (id \in r.failed) <=> (id \in prev.failed)

\* C1: whatever runs of the sync and of the gap checker took place, one after
\* the other or interleaved, and whatever timestamps the remote repeated, no
\* two rows of musiclibrary have the same timestamp.
C1_UniqueTimestamps ==
    \A r \in BagToSet(musiclibrary) :
        /\ CopiesIn(r, musiclibrary) = 1
        /\ \A q \in BagToSet(musiclibrary) : q.timestamp = r.timestamp => q = r

\* a run is about to insert a timestamp that was stored after its check
C1_Witness ==
    \E p \in Procs :
        \/ /\ run[p].pc = "insert"
           /\ SelectExists(musiclibrary, run[p].scrobbles[run[p].idx].uts)
        \/ /\ run[p].pc = "fill_insert"
           /\ SelectExists(musiclibrary, run[p].all_scrobbles[run[p].idx].timestamp)

\* C3: no row of musiclibrary comes from a track the remote marked as
\* now-playing (such tracks are the ones with fields "np"), though the track
\* carries a timestamp that is not stored.
C3_NoNowPlayingStored ==
    \A r \in BagToSet(musiclibrary) : r.fields # "np"

\* a walk and a gap fill have each been through a response that lists the
\* now-playing track
C3_Witness ==
    /\ remote.hist[1].nowplaying
    /\ ~SelectExists(musiclibrary, remote.hist[1].uts)
    /\ \/ SyncReturned(1) /\ <<0, 1>> \in Range(run[1].requests) \ run[1].failed
       \/ /\ run[1].op = "fill" /\ run[1].pc = "done" /\ ~run[1].dry_run
          /\ run[1].result > 0

\* C5: while a dry run of fill_gaps is under way and when it is over, the
\* table is the table the run began with.
C5_DryRunKeepsStore ==
    \A p \in Procs :
        (run[p].op = "fill" /\ run[p].dry_run) => musiclibrary = run[p].pre

\* a dry run is over that found tracks to add
C5_Witness ==
    /\ run[1].op = "fill" /\ run[1].dry_run /\ run[1].pc = "done"
    /\ run[1].result > 0

\* C7: when a walk was ended by the event-granularity stop, the counter of
\* consecutive stored tracks is at least 50, the run is incremental, the table
\* had rows when the run began, and the track it stopped at is not newer than
\* the latest of those rows.
C7_EarlyStopOnlyWhen ==
    \A p \in Procs :
        (run[p].op = "sync" /\ run[p].exit = "event_stop") =>
            /\ run[p].consecutive_old_scrobbles >= CONSECUTIVE_SCROBBLES_THRESHOLD
            /\ ~run[p].full
            /\ run[p].pre # EmptyBag
            /\ run[p].scrobbles[run[p].idx].uts <= SetMax(Stored(run[p].pre))

\* a walk was ended by the event-granularity stop
C7_Witness == run[1].op = "sync" /\ run[1].exit = "event_stop"

\* the incremental run of p is over, and the run before it was the same
\* invocation and ended with "Update complete" or with one of the two stops
SecondIncremental(p) ==
    /\ run[p].op = "sync" /\ ~run[p].full /\ run[p].pc = "done"
    /\ prev.op = "sync"
    /\ prev.exit \in {"exhausted", "page_stop", "event_stop"}

Idle2nd(p) == run[p].result = 0 /\ musiclibrary = run[p].pre

\* C2 as claimed: an incremental sync that follows a completed incremental
\* sync, the remote history unchanged, returns 0 and leaves the table as it was.
C2_Claimed == \A p \in Procs : SecondIncremental(p) => Idle2nd(p)

\* C2, amended: it does so when every request it makes is answered as the
\* first run's was, a failed request failing again.
C2_SecondRunAddsNothing ==
    \A p \in Procs : (SecondIncremental(p) /\ Agree(run[p])) => Idle2nd(p)

\* the first run added rows though a page of it failed, the second is over
C2_Witness ==
    /\ SecondIncremental(1) /\ Agree(run[1])
    /\ prev.result > 0 /\ prev.failed # {}
    /\ run[1].exit = "page_stop"

\* the fix run of the gap checker is over, and the run before it was the dry
\* run of the same invocation
FixAfterDryRun(p) ==
    /\ run[p].op = "fill" /\ ~run[p].dry_run /\ run[p].pc = "done"
    /\ prev.op = "fill" /\ prev.dry_run
    /\ Agree(run[p])

\* C4 as claimed: the count a dry run of fill_gaps returns is the number of
\* rows the fix run after it adds, the table and the remote's answers the same.
C4_Claimed ==
    \A p \in Procs :
        FixAfterDryRun(p) => prev.result = Rows(musiclibrary) - Rows(run[p].pre)

\* C6 as claimed: an incremental walk does not get through a block of stored
\* tracks that are not newer than the latest row the table had: at the 50th
\* of them at the latest it has stopped, and what it returns is the number of
\* rows it added.
C6_Claimed ==
    \A p \in Procs :
        (run[p].op = "sync" /\ ~run[p].full
            /\ run[p].old_run >= CONSECUTIVE_SCROBBLES_THRESHOLD) =>
                /\ run[p].pc = "done"
                /\ run[p].exit = "event_stop"
                /\ run[p].result = Rows(musiclibrary) - Rows(run[p].pre)

\* the same, the latest row of the table being later than 1970-01-01 00:00:00
C6_PositiveLatest ==
    \A p \in Procs :
        (run[p].op = "sync" /\ ~run[p].full
            /\ run[p].old_run >= CONSECUTIVE_SCROBBLES_THRESHOLD
            /\ SetMax(Stored(run[p].pre)) > 0) =>
                /\ run[p].pc = "done"
                /\ run[p].exit = "event_stop"
                /\ run[p].result = Rows(musiclibrary) - Rows(run[p].pre)

\* the walk of p has been through all tracks of the page it fetched
PageOver(p) ==
    /\ run[p].op = "sync" /\ run[p].pc = "event"
    /\ run[p].idx > Len(run[p].scrobbles)

\* no row was added since the page was fetched
NothingNew(p) == Rows(musiclibrary) = run[p].page_base

\* C8: when a fetched page has been gone through and no row was added from
\* it, the next step of an incremental run is its end, with no further
\* request; the next step of a full run is the request of the next page, or
\* the end of the walk when the page was the last one.
C8_PageStop ==
    [][\A p \in Procs :
        (PageOver(p) /\ NothingNew(p) /\ run'[p] # run[p]) =>
            IF ~run[p].full
            THEN /\ run'[p].pc = "done"
                 /\ run'[p].requests = run[p].requests
            ELSE \/ /\ run'[p].pc = "fetch"
                    /\ run'[p].page_ = run[p].page_ + 1
                 \/ /\ run[p].page_ = run[p].total_pages
                    /\ run'[p].pc = "done"
                    /\ run'[p].exit = "exhausted"]_vars

\* an incremental run is through a page that added nothing, pages left to walk
C8_Witness ==
    /\ PageOver(1) /\ NothingNew(1) /\ ~run[1].full
    /\ run[1].scrobbles # <<>>
    /\ run[1].page_ < run[1].total_pages

\* the requests of a walk of the pages 1..n, after the first request
WalkOf(n) == [i \in 1..(n + 1) |-> <<0, i - 1>>]

\* C9: a full sync that returns from its walk has requested every page from 1
\* to totalPages, or to the page limit when one is given, ends because the
\* pages are exhausted, and every track that is not now-playing of every page
\* it received has its timestamp in the table.
C9_FullWalk ==
    \A p \in Procs :
        (SyncReturned(p) /\ run[p].full) =>
            LET total == RecentTracks(1).totalPages
                n == IF run[p].pages > 0 THEN Min2(total, run[p].pages) ELSE total
            IN  /\ run[p].exit = "exhausted"
                /\ run[p].requests = WalkOf(n)
                /\ \A k \in 1..n :
                    <<0, k>> \notin run[p].failed =>
                        \A e \in Range(RecentTracks(k).track) :
                            ~e.nowplaying => SelectExists(musiclibrary, e.uts)

\* a full sync is over that walked more than five pages, one of them adding
\* no row
C9_Witness ==
    /\ SyncReturned(1) /\ run[1].full
    /\ run[1].total_pages > IncrementalPages
    /\ run[1].result > 0 /\ run[1].result < run[1].total_pages

\* C10 as claimed: a thorough update without --pages, against a remote of at
\* least 20 pages and with no stop firing, requests the pages 1 to 20.
C10_Claimed ==
    \A p \in Procs :
        (/\ SyncReturned(p) /\ run[p].mode = "thorough"
         /\ run[p].pages = ThoroughPages
         /\ run[p].exit = "exhausted" /\ run[p].failed = {}
         /\ RecentTracks(1).totalPages >= ThoroughPages) =>
            run[p].requests = WalkOf(ThoroughPages)

\* C11: with one writer, what get_scrobbles returned (pages exhausted, page
\* stop, event stop or failed first request) and what fill_gaps returned when
\* it is not a dry run is the number of rows the table has more than when the
\* run began.
C11_ReturnsRowsAdded ==
    \A p \in Procs :
        (/\ run[p].pc = "done"
         /\ run[p].op = "sync" \/ (run[p].op = "fill" /\ ~run[p].dry_run)) =>
            run[p].result = Rows(musiclibrary) - Rows(run[p].pre)

\* a walk that added rows on more than one page was ended by the event stop
C11_Witness ==
    /\ run[1].op = "sync" /\ run[1].pc = "done" /\ run[1].exit = "event_stop"
    /\ run[1].page_ > 1
    /\ run[1].result > run[1].page_new_count

\* the pairs of timestamps of db later than the cutoff with no timestamp of db
\* between them and further apart than the threshold
AdjacentGaps(db, cutoff_time, gap_threshold) ==
    LET S == {t \in Stored(db) : t > cutoff_time}
        Below(a) == {m \in S : m < a}
    IN  {[newer_ts |-> a, older_ts |-> SetMax(Below(a)),
          gap_seconds |-> a - SetMax(Below(a))] :
            a \in {x \in S : /\ Below(x) # {}
                             /\ x - SetMax(Below(x)) > gap_threshold}}

\* C12: the gaps find_timestamp_gaps gave the gap checker are exactly the
\* adjacent pairs of the table's timestamps in the window that differ by more
\* than the threshold, each once, with gap_seconds = newer - older; for the
\* timestamps 1000, 5000, 5100, 9000 and the threshold 3600 they are
\* (9000, 5100) with 3900 and (5000, 1000) with 4000.
C12_GapsAreAdjacentPairs ==
    \A p \in Procs :
        run[p].op = "fill" =>
            LET g == run[p].gaps
                E == AdjacentGaps(run[p].pre, run[p].cutoff_time, run[p].gap_threshold)
            IN  /\ Range(g) = E
                /\ Len(g) = Cardinality(E)
                /\ (/\ Stored(run[p].pre) = {1000, 5000, 5100, 9000}
                    /\ run[p].gap_threshold = 3600
                    /\ run[p].cutoff_time < 1000) =>
                        E = {[newer_ts |-> 9000, older_ts |-> 5100, gap_seconds |-> 3900],
                             [newer_ts |-> 5000, older_ts |-> 1000, gap_seconds |-> 4000]}

\* the gap checker ran on the timestamps 1000, 5000, 5100, 9000 with the
\* threshold 3600 and the whole table in the window
C12_Witness ==
    /\ run[1].op = "fill"
    /\ Stored(run[1].pre) = {1000, 5000, 5100, 9000}
    /\ run[1].gap_threshold = 3600 /\ run[1].cutoff_time < 1000
    /\ Len(run[1].gaps) = 2

\* the gap checker's fill_gaps is over
FillReturned(p) ==
    run[p].op = "fill" /\ run[p].pc = "done" /\ run[p].exit = "filled"

\* C13: when fill_gaps is over, the window of every gap of its list was
\* requested, whatever requests failed, and (in a fix run) every track
\* received for any gap is in the table.
C13_EveryGapProcessed ==
    \A p \in Procs :
        (run[p].op = "fill" /\ run[p].pc = "done" /\ run[p].gaps # <<>>) =>
            /\ run[p].exit = "filled"
            /\ \A g \in 1..Len(run[p].gaps) :
                /\ <<g, 1>> \in Range(run[p].requests)
                /\ \A id \in Range(run[p].requests) \ run[p].failed :
                    (id[1] = g /\ ~run[p].dry_run) =>
                        \A row \in Range(KeptTracks(
                                RangeTracks(run[p].gaps[g].older_ts,
                                            run[p].gaps[g].newer_ts, id[2]).track)) :
                            SelectExists(musiclibrary, row.timestamp)

\* a fix run is over whose request for the first gap failed and which added
\* rows for the second
C13_Witness ==
    /\ FillReturned(1) /\ ~run[1].dry_run
    /\ Len(run[1].gaps) = 2
    /\ <<1, 1>> \in run[1].failed
    /\ <<2, 1>> \notin run[1].failed
    /\ run[1].result > 0

\* the run of p is under way
InProgress(p) == run[p].pc \notin {"idle", "done"}

\* C14 as claimed: no two runs on the same table are under way after each has
\* made a request: the one started second fails before it fetches or inserts.
C14_Claimed ==
    \A p, q \in Procs :
        (p # q /\ InProgress(p) /\ InProgress(q)) =>
            run[p].requests = <<>> \/ run[q].requests = <<>>

\* the incremental run of p is over, every request of it answered; the run
\* before it was the same invocation, killed between two page requests
RerunAfterInterrupt(p) ==
    /\ run[p].op = "sync" /\ ~run[p].full /\ SyncReturned(p)
    /\ run[p].failed = {}
    /\ prev.exit = "interrupted" /\ prev.failed = {}

\* C15 as claimed: after the re-run the table has every timestamp that one
\* uninterrupted run from the table the killed run began with would have
\* stored.
C15_Claimed ==
    \A p \in Procs :
        RerunAfterInterrupt(p) =>
            Stored(Walk(prev.pre, FALSE, run[p].pages).db) \subseteq Stored(musiclibrary)

\* the function Walk is the walk of the actions: a run of one writer with
\* every request answered ends with its table and its count
WalkIsRun ==
    \A p \in Procs :
        (SyncReturned(p) /\ run[p].failed = {}) =>
            LET w == Walk(run[p].pre, run[p].full, run[p].pages)
            IN  w.db = musiclibrary /\ w.added = run[p].result

\* the inserts the run of p has counted so far
Counted(p) ==
    IF run[p].op = "sync" THEN run[p].new_scrobbles_count
    ELSE IF run[p].dry_run THEN 0
    ELSE run[p].total_added
            + (IF run[p].pc \in {"check", "fill_insert"} THEN run[p].added_count ELSE 0)

\* the rows of the remote's tracks that are not now-playing
RemoteRows ==
    {Row(remote.hist[i].uts, remote.hist[i].fields) :
        i \in {j \in 1..Len(remote.hist) : ~remote.hist[j].nowplaying}}

\* C16: at every point of a sync or gap-fill run (each a point where the
\* process may be killed) the table is the table the run began with plus one
\* row for every insert the run has counted, each of the added rows a whole
\* row of a track of the remote that is not now-playing, and no timestamp
\* twice.
C16_StoreValidAtEveryPoint ==
    \A p \in Procs :
        run[p].op \in {"sync", "fill"} =>
            /\ run[p].pre \sqsubseteq musiclibrary
            /\ BagToSet(musiclibrary (-) run[p].pre) \subseteq RemoteRows
            /\ Rows(musiclibrary) = Rows(run[p].pre) + Counted(p)
            /\ Cardinality(Stored(musiclibrary)) = Rows(musiclibrary)

\* a walk is in the middle of a page of which it has stored a track, and a
\* track with a repeated timestamp is next
C16_Witness ==
    /\ run[1].op = "sync" /\ run[1].pc = "event"
    /\ run[1].page_new_count > 0
    /\ run[1].idx <= Len(run[1].scrobbles)
    /\ SelectExists(musiclibrary, run[1].scrobbles[run[1].idx].uts)
    /\ ~SelectExists(run[1].pre, run[1].scrobbles[run[1].idx].uts)

\* C17: no step of a sync or of a gap fill removes or changes a row: every
\* row of the table is a row of the table after the step, with the fields it
\* had, also when the remote lists its timestamp with other fields.
C17_RowsNeverChange ==
    [][musiclibrary \sqsubseteq musiclibrary']_vars

\* a run is about to insert a track whose timestamp was stored, after the
\* run's check, with other fields
C17_Witness ==
    \E p \in Procs :
        /\ run[p].pc = "insert"
        /\ \E r \in BagToSet(musiclibrary) :
            /\ r.timestamp = run[p].scrobbles[run[p].idx].uts
            /\ r.fields # run[p].scrobbles[run[p].idx].fields

\* the walk of p received page k and went through all of it
WentThrough(p, k) ==
    /\ <<0, k>> \in Range(run[p].requests) \ run[p].failed
    /\ k < run[p].page_ \/ run[p].exit \in {"exhausted", "page_stop"}

\* C18: a page request of the walk that fails is followed by the request of
\* the next page, or by the end of the walk when it was for the last page of
\* the ceiling, never by the page stop, and it adds no row; and when the walk
\* is over, every track that is not now-playing of every page it went
\* through, before or after a failed one, is in the table.
C18_FailedPageSkipped ==
    /\ [][\A p \in Procs :
            (/\ run[p].op = "sync" /\ run[p].pc = "fetch"
             /\ run'[p].failed # run[p].failed) =>
                /\ run'[p].new_scrobbles_count = run[p].new_scrobbles_count
                /\ musiclibrary' = musiclibrary
                /\ IF run[p].page_ < run[p].total_pages
                   THEN run'[p].pc = "fetch" /\ run'[p].page_ = run[p].page_ + 1
                   ELSE run'[p].pc = "done" /\ run'[p].exit = "exhausted"]_vars
    /\ [](\A p \in Procs :
            SyncReturned(p) =>
                \A k \in 1..run[p].total_pages :
                    WentThrough(p, k) =>
                        \A e \in Range(RecentTracks(k).track) :
                            ~e.nowplaying => SelectExists(musiclibrary, e.uts))

\* an incremental walk is over whose request for page 2 failed and which
\* stored tracks of a later page
C18_Witness ==
    /\ SyncReturned(1) /\ ~run[1].full
    /\ <<0, 2>> \in run[1].failed
    /\ run[1].page_ > 2 /\ WentThrough(1, run[1].page_)
    /\ \E e \in Range(RecentTracks(run[1].page_).track) :
            ~SelectExists(run[1].pre, e.uts) /\ SelectExists(musiclibrary, e.uts)

\* what the caller of get_scrobbles has of the run of p when it returned:
\* the returned count (get_scrobbles raises nothing for a failed request)
CallerSees(p) == run[p].result

\* C19 as claimed: what get_scrobbles hands its caller after a failed first
\* request is not what it hands it after a walk that added nothing (the
\* count 0, on which the entry points report "up to date" and exit with 0).
C19_Claimed ==
    \A p \in Procs :
        (run[p].op = "sync" /\ run[p].pc = "done" /\ run[p].exit = "first_failed") =>
            CallerSees(p) # 0

\* a cycle of the scheduler ended with an exception
CycleRaised(p) ==
    run[p].mode = "sched" /\ run[p].pc = "done" /\ run[p].exit = "raised"

\* C20: a cycle of the scheduler that ends with an exception is followed by
\* the scheduler waiting for its next tick, the table as the cycle left it,
\* and after it a next cycle calls get_scrobbles.
C20_SchedulerSurvives ==
    /\ [][\A p \in Procs :
            CycleRaised(p) =>
                run'[p].pc = "waiting" /\ musiclibrary' = musiclibrary]_vars
    /\ \A p \in Procs : CycleRaised(p) ~> (run[p].pc = "first")

\* a cycle raised after an earlier cycle had added rows
C20_Witness ==
    /\ CycleRaised(1)
    /\ musiclibrary # EmptyBag
    /\ prev.op = "sync" /\ prev.result > 0

\* no request for the window of gap g failed in the run of p
WindowAnswered(p, g) == \A id \in run[p].failed : id[1] # g

\* C21: when a fix run of fill_gaps is over, for every gap whose requests
\* were all answered, every page of its window was requested and every track
\* of the remote that is not now-playing and lies in the window from older_ts
\* to newer_ts is in the table.
C21_WindowFullyWalked ==
    \A p \in Procs :
        (FillReturned(p) /\ ~run[p].dry_run) =>
            \A g \in 1..Len(run[p].gaps) :
                WindowAnswered(p, g) =>
                    LET gap == run[p].gaps[g]
                        total == RangeTracks(gap.older_ts, gap.newer_ts, 1).totalPages
                    IN  /\ \A k \in 1..total : <<g, k>> \in Range(run[p].requests)
                        /\ \A e \in Range(remote.hist) :
                            (/\ ~e.nowplaying
                             /\ gap.older_ts <= e.uts /\ e.uts <= gap.newer_ts) =>
                                SelectExists(musiclibrary, e.uts)

\* a fix run is over that added a row from a later page of a window
C21_Witness ==
    /\ FillReturned(1) /\ ~run[1].dry_run
    /\ \E g \in 1..Len(run[1].gaps) :
        /\ WindowAnswered(1, g)
        /\ \E k \in 2..3 :
            /\ <<g, k>> \in Range(run[1].requests)
            /\ \E row \in Range(KeptTracks(
                    RangeTracks(run[1].gaps[g].older_ts,
                                run[1].gaps[g].newer_ts, k).track)) :
                ~SelectExists(run[1].pre, row.timestamp)

InPage(p) == run[p].op = "sync" /\ run[p].pc \in {"event", "insert"}

\* C23: the requests of a sync run are, after the first one, for the pages
\* 1, 2, 3, ... in this order; a request is made only when every track of
\* the page received before it has been gone through; within a page the
\* tracks are taken one after the other in the order of the response, each
\* track before the current one that is not now-playing being stored, and a
\* row that is added is the row of the current track.
C23_SequentialInOrder ==
    /\ [](\A p \in Procs :
            /\ run[p].op = "sync" =>
                    run[p].requests = WalkOf(Len(run[p].requests) - 1)
            /\ InPage(p) =>
                    \A j \in 1..(run[p].idx - 1) :
                        (j <= Len(run[p].scrobbles) /\ ~run[p].scrobbles[j].nowplaying)
                            => SelectExists(musiclibrary, run[p].scrobbles[j].uts))
    /\ [][\A p \in Procs :
            (run[p].op = "sync" /\ run'[p].op = "sync") =>
                /\ run'[p].requests # run[p].requests =>
                        run[p].scrobbles = <<>> \/ run[p].idx > Len(run[p].scrobbles)
                /\ (InPage(p) /\ run'[p].idx # run[p].idx
                        /\ run'[p].requests = run[p].requests) =>
                            run'[p].idx = run[p].idx + 1
                /\ musiclibrary' # musiclibrary =>
                        /\ run[p].pc = "insert"
                        /\ musiclibrary' = musiclibrary (+) SetToBag(
                                {Row(run[p].scrobbles[run[p].idx].uts,
                                     run[p].scrobbles[run[p].idx].fields)})]_vars

\* a walk is past the first track of its second page and has stored a track
\* of that page
C23_Witness ==
    /\ InPage(1) /\ run[1].page_ >= 2 /\ run[1].idx >= 2
    /\ run[1].page_new_count > 0
    /\ run[1].requests = WalkOf(run[1].page_)

\* C24 as claimed: what an incremental run read with get_latest_timestamp
\* is the greatest timestamp of the table it began with when that table has
\* rows, and the marker 0 only when it has none; so the test
\* latest_timestamp > 0 of the event stop is true exactly when the table had
\* a row.
C24_Claimed ==
    \A p \in Procs :
        (run[p].op = "sync" /\ ~run[p].full) =>
            /\ run[p].pre # EmptyBag =>
                    run[p].latest_timestamp = SetMax(Stored(run[p].pre))
            /\ (run[p].latest_timestamp > 0) <=> (run[p].pre # EmptyBag)

\* C25: a search with a query of no or one character returns the empty
\* list, whatever the table holds.
C25_ShortQueryEmpty ==
    \A p \in Procs :
        (run[p].op = "search" /\ Len(run[p].q) < 2) => run[p].results = <<>>

\* a one-character query that is part of a stored artist's name was answered
C25_Witness ==
    /\ run[1].op = "search" /\ Len(run[1].q) = 1 /\ run[1].limit > 0
    /\ \E r \in BagToSet(musiclibrary) : Contains(run[1].q, r.fields)

\* the text in lower case without its accents
Folded(text) == SelectSeq(NFD(lower(text)), LAMBDA c : c # "¨")

\* the artists of the table
StoredArtists == {r.fields : r \in BagToSet(musiclibrary)}

\* C26: when a query of at least 2 characters is, folded, part of the folded
\* name of a stored artist (as "lut" is of "Lüt"), every entry of the result
\* for that artist has similarity 100, and the artist is in the result when
\* the limit is not below the number of artists.
C26_SubstringScores100 ==
    \A p \in Procs :
        (run[p].op = "search" /\ Len(run[p].q) >= 2) =>
            \A a \in StoredArtists :
                Contains(Folded(run[p].q), Folded(a)) =>
                    /\ \A e \in Range(run[p].results) :
                            e.artist = a => e.similarity = 100
                    /\ run[p].limit >= Cardinality(StoredArtists) =>
                            \E e \in Range(run[p].results) : e.artist = a

\* the query "LUT" was answered with "Lüt" at 100 and another artist from
\* the fuzzy tier
C26_Witness ==
    /\ run[1].op = "search" /\ run[1].q = <<"L", "U", "T">>
    /\ \E e \in Range(run[1].results) :
            e.artist = <<"L", "ü", "t">> /\ e.similarity = 100
    /\ \E e \in Range(run[1].results) : e.similarity < 100

\* the list is in descending order of similarity, entries of equal
\* similarity in descending order of plays, and no artist is in it twice
RankedOnce(results) ==
    /\ \A i, j \in 1..Len(results) :
        i < j =>
            /\ results[i].similarity >= results[j].similarity
            /\ results[i].similarity = results[j].similarity =>
                    results[i].plays >= results[j].plays
            /\ results[i].artist # results[j].artist

\* C27 as claimed: the list a search returns is ranked, has no artist twice
\* and has at most limit entries.
C27_Claimed ==
    \A p \in Procs :
        run[p].op = "search" =>
            /\ RankedOnce(run[p].results)
            /\ Len(run[p].results) <= run[p].limit

\* the same for the limits that are not negative
C27_NonNegativeLimit ==
    \A p \in Procs :
        run[p].op = "search" =>
            /\ RankedOnce(run[p].results)
            /\ run[p].limit >= 0 => Len(run[p].results) <= run[p].limit

\* C28 as claimed: a run in an environment without the API key or without
\* the user name makes no request.
C28_Claimed ==
    ~Configured =>
        /\ \A p \in Procs : run[p].requests = <<>>
        /\ prev.asked = {}

\* the process is at a track of its page that it has not yet looked at
AtTrack(p) ==
    /\ run[p].op = "sync" /\ run[p].pc = "event"
    /\ run[p].idx <= Len(run[p].scrobbles)

\* C29: the counter of a sync run is 0 when the run begins; a track that is
\* stored when the run comes to it adds one, a track that is not stored sets
\* the counter to 0, a now-playing track leaves it as it is, and so does
\* every other step of the run (a request, a page that failed, the end of a
\* page, the insert).
C29_CounterCountsStored ==
    /\ [](\A p \in Procs : run[p].pc = "first" => run[p].consecutive_old_scrobbles = 0)
    /\ [][\A p \in Procs :
            (run[p].op = "sync" /\ run'[p].op = "sync" /\ run'[p] # run[p]) =>
                LET count == run[p].consecutive_old_scrobbles
                    after == run'[p].consecutive_old_scrobbles
                    scrobble == run[p].scrobbles[run[p].idx]
                IN  IF ~AtTrack(p) \/ scrobble.nowplaying
                    THEN after = count
                    ELSE IF scrobble.uts \in Stored(musiclibrary)
                         THEN after = count + 1
                         ELSE after = 0]_vars

\* the run is at the first track of its third page with the counter above 0,
\* the second page having failed, and a now-playing track was on the way
C29_Witness ==
    /\ run[1].op = "sync" /\ run[1].pc = "event" /\ run[1].idx = 1
    /\ run[1].page_ = 3 /\ <<0, 2>> \in run[1].failed
    /\ run[1].consecutive_old_scrobbles > 0
    /\ remote.hist[1].nowplaying

\* C30 as claimed: when the stop on a track fires, the last 50 tracks or more
\* that the run met were all stored and not newer than the latest row the
\* table had when the run began.
C30_Claimed ==
    \A p \in Procs :
        (run[p].op = "sync" /\ run[p].exit = "event_stop") =>
            run[p].old_run >= CONSECUTIVE_SCROBBLES_THRESHOLD

\* the positions of the remote's tracks that are not now-playing
Dated == {i \in 1..Len(remote.hist) : ~remote.hist[i].nowplaying}

\* the remote lists its tracks newest first
NewestFirst ==
    \A i, j \in Dated : i < j => remote.hist[i].uts >= remote.hist[j].uts

\* the positions of the tracks newer than the latest row the table had when
\* the run of p began
NewerThanLatest(p) ==
    {i \in Dated : remote.hist[i].uts > get_latest_timestamp(run[p].pre)}

\* the page a position is on
PageAt(i) == (i - 1) \div remote.perPage + 1

\* an incremental run has returned, no request of it failed, the remote is
\* newest first and the newer tracks are on the first 5 pages and within
\* the page limit the run was given
C31_Case(p) ==
    /\ SyncReturned(p) /\ ~run[p].full /\ run[p].failed = {}
    /\ NewestFirst
    /\ \A i \in NewerThanLatest(p) :
        /\ PageAt(i) <= IncrementalPages
        /\ run[p].pages > 0 => PageAt(i) <= run[p].pages

\* C31 as claimed: after such a run every track of the remote that is newer
\* than the latest row the table had before the run is stored.
C31_Claimed ==
    \A p \in Procs :
        C31_Case(p) =>
            \A i \in NewerThanLatest(p) :
                SelectExists(musiclibrary, remote.hist[i].uts)

\* fetch_scrobbles_in_range has returned the list for the gap run[p].g
WindowFetched(p) ==
    run[p].op = "fill" /\ run[p].pc \in {"check", "fill_insert"}

\* the pages of the window of the gap the run is at
WindowPages(p) ==
    RangeTracks(run[p].gaps[run[p].g].older_ts,
                run[p].gaps[run[p].g].newer_ts, 1).totalPages

\* the rows of page k of that window
WindowRows(p, k) ==
    Range(KeptTracks(RangeTracks(run[p].gaps[run[p].g].older_ts,
                                 run[p].gaps[run[p].g].newer_ts, k).track))

\* the tracks of the pages before a failed page of the window are in the
\* list that fetch_scrobbles_in_range returns
C32_EarlierPagesKept ==
    \A p \in Procs :
        WindowFetched(p) =>
            \A id \in run[p].failed :
                (id[1] = run[p].g /\ id[2] >= 2) =>
                    \A k \in 1..(id[2] - 1) :
                        WindowRows(p, k) \subseteq Range(run[p].all_scrobbles)

\* C32 as claimed: when a request for a page of a window other than the
\* first fails, the tracks of the earlier pages are kept and the later pages
\* of the window are still requested.
C32_Claimed ==
    \A p \in Procs :
        WindowFetched(p) =>
            \A id \in run[p].failed :
                (id[1] = run[p].g /\ id[2] >= 2) =>
                    /\ \A k \in 1..(id[2] - 1) :
                        WindowRows(p, k) \subseteq Range(run[p].all_scrobbles)
                    /\ \A k \in (id[2] + 1)..WindowPages(p) :
                        <<run[p].g, k>> \in Range(run[p].requests)

\* the step is a step inside the runs: no run begins or is handed back
WithinRuns == \A p \in Procs : run[p].op = run'[p].op

\* the run of p is at an insert whose timestamp was stored after its SELECT
LostRace(p) ==
    \/ /\ run[p].pc = "insert"
       /\ SelectExists(musiclibrary, run[p].scrobbles[run[p].idx].uts)
    \/ /\ run[p].pc = "fill_insert"
       /\ SelectExists(musiclibrary, run[p].all_scrobbles[run[p].idx].timestamp)

\* C33: with two runs interleaved on one table, no timestamp is stored twice;
\* every step adds as many rows as the counts of the runs go up together, so
\* a row is counted by one run only; a run whose insert finds the timestamp
\* stored adds nothing, counts nothing and goes on to its next track; and a
\* run that writes returns its count.
C33_EachRowCountedOnce ==
    /\ [](/\ Cardinality(Stored(musiclibrary)) = Rows(musiclibrary)
          /\ \A p \in Procs :
                (run[p].pc = "done" /\ ~run[p].dry_run) => run[p].result = Counted(p))
    /\ [][WithinRuns =>
            /\ Rows(musiclibrary') - Rows(musiclibrary)
                    = (Counted(1)' - Counted(1)) + (Counted(2)' - Counted(2))
            /\ \A p \in Procs :
                (LostRace(p) /\ run'[p] # run[p]) =>
                    /\ musiclibrary' = musiclibrary
                    /\ run'[p].idx = run[p].idx + 1
                    /\ run'[p].pc = (IF run[p].op = "sync" THEN "event" ELSE "check")]_vars

\* one run has counted a row and the other is at the insert of a track with
\* that timestamp, which was not stored when either run began
C33_Witness ==
    /\ Counted(1) = 1
    /\ run[2].op \in {"sync", "fill"} /\ ~run[2].dry_run
    /\ LostRace(2)
    /\ Counted(2) = 0
    /\ Rows(musiclibrary) = Rows(run[2].pre) + 1
    /\ run[1].pre = run[2].pre

\* the window of gap g of the run of p, page k
WindowOf(p, g, k) ==
    RangeTracks(run[p].gaps[g].older_ts, run[p].gaps[g].newer_ts, k)

\* C34: a run that has begun comes to its end; a sync run makes at most one
\* request more than the smaller of totalPages and its ceiling; the requests
\* of fetch_scrobbles_in_range for one window are for the pages 1, 2, 3, ...
\* in this order, and no request follows, for the same window, a request
\* that failed, whose response had no tracks, or whose response reported
\* totalPages not above its page.
C34_EveryRunTerminates ==
    /\ [](\A p \in Procs :
            /\ run[p].op = "sync" =>
                Len(run[p].requests) <=
                    1 + PageCeiling(RecentTracks(1).totalPages, run[p].pages, run[p].full)
            /\ run[p].op = "fill" =>
                \A i \in 1..Len(run[p].requests) :
                    LET id == run[p].requests[i]
                        first == i = 1 \/ run[p].requests[i - 1][1] # id[1]
                    IN  /\ id[1] \in 1..Len(run[p].gaps)
                        /\ first => id[2] = 1
                        /\ ~first =>
                            LET before == run[p].requests[i - 1]
                                data == WindowOf(p, before[1], before[2])
                            IN  /\ id[2] = before[2] + 1
                                /\ before \notin run[p].failed
                                /\ data.track # <<>>
                                /\ data.totalPages > before[2])
    /\ InProgress(1) ~> (run[1].pc = "done")

\* a window's walk went to its third page, and a window's walk ended on a
\* request that failed
C34_Witness ==
    /\ run[1].op = "fill" /\ run[1].pc = "done"
    /\ \E i \in 1..Len(run[1].requests) : run[1].requests[i][2] = 3
    /\ run[1].failed # {}

\* C35: when the first request of get_scrobbles fails, the run is over with
\* that request as its only one, it has inserted nothing, the table is the
\* table it began with, and it returns 0.
C35_FirstFailureEndsRun ==
    \A p \in Procs :
        (run[p].op = "sync" /\ <<0, 0>> \in run[p].failed) =>
            /\ run[p].pc = "done"
            /\ run[p].requests = << <<0, 0>> >>
            /\ run[p].new_scrobbles_count = 0
            /\ musiclibrary = run[p].pre
            /\ run[p].result = 0

\* the first request failed though the remote has tracks that are not stored
C35_Witness ==
    /\ run[1].op = "sync" /\ <<0, 0>> \in run[1].failed
    /\ \E e \in Range(remote.hist) :
        ~e.nowplaying /\ ~SelectExists(musiclibrary, e.uts)

\* the artists that qualify for the search of p: the stored names matched as
\* substrings, at 100, and the other stored names the scorer gave 60 or more
Qualifying(p) ==
    {[artist |-> a.artist, plays |-> a.plays,
      similarity |-> IF run[p].scores[a.artist] = <<>>
                     THEN 100 ELSE run[p].scores[a.artist][1]] :
        a \in {b \in Range(all_artists(musiclibrary)) :
                \/ run[p].scores[b.artist] = <<>>
                \/ run[p].scores[b.artist][1] >= score_cutoff}}

\* C36 as claimed: for a query of 2 characters or more and a limit of 1 or
\* more, the list returned is a first part of the qualifying artists in the
\* order of similarity, then plays: its entries qualify, it has limit entries
\* or all of them, and no artist left out comes before one that is in it.
C36_Claimed ==
    \A p \in Procs :
        (run[p].op = "search" /\ Len(run[p].q) >= 2 /\ run[p].limit >= 1) =>
            /\ Range(run[p].results) \subseteq Qualifying(p)
            /\ Len(run[p].results) = Min2(run[p].limit, Cardinality(Qualifying(p)))
            /\ \A x \in Qualifying(p) \ Range(run[p].results) :
                    \A y \in Range(run[p].results) : ~Before(x, y)

\* the same when the scorer gives no more than 2 * limit names a score of 60
\* or more
C36_WithinCap ==
    \A p \in Procs :
        (/\ run[p].op = "search" /\ Len(run[p].q) >= 2 /\ run[p].limit >= 1
         /\ Cardinality({x \in Qualifying(p) : x.similarity < 100}) <= 2 * run[p].limit) =>
            /\ Range(run[p].results) \subseteq Qualifying(p)
            /\ Len(run[p].results) = Min2(run[p].limit, Cardinality(Qualifying(p)))
            /\ \A x \in Qualifying(p) \ Range(run[p].results) :
                    \A y \in Range(run[p].results) : ~Before(x, y)

====
